---- MODULE Spec2Model ----
(***************************************************************************)
(* Model of rust_clear_target: the interactive selection controller        *)
(* (src/ui/tui.rs, CleanerTUI) and the Cleaner it drives                   *)
(* (src/cleaner/targer_cleaner.rs, TargetCleaner), running against a       *)
(* filesystem that another process may change at any time; the path        *)
(* filter and the discovery of the scanner                                 *)
(* (src/scanner/rust_project_scaner.rs), the name resolution               *)
(* (src/scanner/rust_project.rs), the size and age analysis                *)
(* (src/scanner/target_finder.rs), and the start of the program            *)
(* (src/main.rs, src/app.rs) up to the controller's construction.          *)
(* Spec and HandlerSpec run the controller over a given project list,      *)
(* AppSpec runs the program from main, FairRunSpec its two threads up to   *)
(* the controller's construction, WalkSpec runs find_projects over a       *)
(* directory tree, FilterSpec, SizeSpec, TimeSpec and NameSpec apply the   *)
(* pure functions of the scanner to bounded inputs.                        *)
(*                                                                         *)
(* Indices are the 0-based indices of the Rust code; At(s, i) reads the    *)
(* element with Rust index i.  A build-output directory is identified by   *)
(* the index of its project (the scan of the single default search root    *)
(* yields one project per directory).                                      *)
(*                                                                         *)
(* Terminal I/O (terminal.draw, event::read) is assumed not to fail, and    *)
(* Path::exists to answer truthfully.  An event that is not a key event     *)
(* changes nothing and is left out.  CleanerTUI::new accepts projects       *)
(* without target info, so the lists of Init hold them too.                 *)
(***************************************************************************)
EXTENDS Integers, Sequences, FiniteSets, TLC

\* ------------------------------------------------------------------ bounds
MaxProjects == 2

\* size_bytes values of the build-output directories the scan reported
Sizes == {10, 2048}

VARIABLES
    projects,           \* CleanerTUI.projects
    dry_run,            \* CleanerTUI.config.dry_run
    selected,           \* AppState.selected (focus index)
    list_state,         \* AppState.list_state (ratatui's selected row)
    selected_projects,  \* AppState.selected_projects
    mode,               \* AppState.mode
    status_message,     \* AppState.status_message
    total_freed_space,  \* AppState.total_freed_space
    cleanup_progress,   \* AppState.cleanup_progress
    fs,                 \* the filesystem: state of each build-output directory
    pc,                 \* position of the session's single thread
    key,                \* the key event of the handler in progress / that ended the session
    pf,                 \* perform_cleanup's locals: i, cleaned, total_to_clean
    cf,                 \* clean_selected_projects' locals: i, total_freed, errors
    fs_log,             \* delete_target_directory outcomes of the current Cleaner call
    result,             \* the CleanupResult last returned to perform_cleanup
    cleaner_calls,      \* number of calls of clean_selected_projects so far
    fq,                 \* a call of is_ignored_path or is_excluded: arguments and verdict
    tq,                 \* a call of get_last_accessed_time or is_stale: arguments and result
    sq,                 \* a call of calculate_directory_size: the directory and the result
    app,                \* main, App::new and App::run up to the controller's construction
    wk,                 \* find_projects over a directory tree: the walk and what it read
    nq                  \* a call of extract_project_name: the manifest and the result

\* the variables outside the controller and the Cleaner
aux == <<fq, sq, tq, app, wk, nq>>

vars == <<projects, dry_run, selected, list_state, selected_projects, mode,
          status_message, total_freed_space, cleanup_progress, fs, pc, key,
          pf, cf, fs_log, result, cleaner_calls, fq, sq, tq, app, wk, nq>>

\* no call of the path filter
FqIdle == [phase |-> "idle", path |-> <<>>, ignore_paths |-> <<>>,
           exclude_patterns |-> <<>>, value |-> FALSE]

\* no call of get_last_accessed_time or is_stale
TqIdle == [phase |-> "idle", dir |-> [modified |-> 0, entries |-> <<>>],
           last_accessed |-> 0, threshold |-> 0, value |-> 0]

\* no call of calculate_directory_size
SqIdle == [phase |-> "idle", entries |-> <<>>, value |-> 0]

\* the scan is over and the controller runs: App::run at tui.run()
AppIdle == [phase |-> "tui", search_paths |-> <<>>, path |-> 0, entry |-> 0,
            projects |-> <<>>, enumerated |-> 0, tx |-> "open", loading_indicator |-> "none",
            i |-> 0]

\* no walk
WkIdle == [phase |-> "idle", entries |-> {}, search_paths |-> <<>>,
           exclude_patterns |-> <<>>, ignore_paths |-> <<>>, filtered_paths |-> <<>>,
           path |-> 0, stack_list |-> <<>>, read |-> {}, projects |-> <<>>]

\* no call of extract_project_name
NqIdle == [phase |-> "idle", manifest |-> <<>>, value |-> <<>>]

\* ---------------------------------------------------------------- helpers
At(s, i) == s[i + 1]

Indices == 0 .. (Len(projects) - 1)

NoTarget == [some |-> FALSE, size_bytes |-> 0]

SomeTarget(sz) == [some |-> TRUE, size_bytes |-> sz]

\* RustProject, reduced to the field the controller and the Cleaner read
RustProject == [target_info : {NoTarget} \cup {SomeTarget(sz) : sz \in Sizes}]

\* the states of one build-output directory
\*   "none"    the project has no build-output directory
\*   "dir"     exists, remove_dir_all succeeds
\*   "denied"  exists, remove_dir_all fails (permission denied)
\*   "cleaned" removed by the Cleaner
\*   "gone"    removed by another process
Exists(d) == d \in {"dir", "denied"}

RECURSIVE SumOver(_, _)
SumOver(f, S) ==
    IF S = {} THEN 0
    ELSE LET x == CHOOSE y \in S : TRUE IN f[x] + SumOver(f, S \ {x})

size_of == [i \in Indices |-> At(projects, i).target_info.size_bytes]

\* a count that leaves out the filter
selected_count_unfiltered == Len(selected_projects)

\* selected_projects.iter().filter(|&x| *x).count()
selected_count == Cardinality({i \in Indices : At(selected_projects, i)})

\* 1024^n; the sizes of the model stay below 1024^2, so only the units B, KB and MB
\* of UNITS are needed
Pow1024(n) == IF n = 0 THEN 1 ELSE IF n = 1 THEN 1024 ELSE 1048576

\* floor(log10(bytes) / log10(1024)), for bytes < 1024^3
unit_index(bytes) ==
    IF bytes < Pow1024(1) THEN 0 ELSE IF bytes < Pow1024(2) THEN 1 ELSE 2

\* "{:.2}" of bytes / 1024^u, as hundredths: nearest, ties to even
Hundredths(bytes, u) ==
    LET n == bytes * 100
        d == Pow1024(u)
        q == n \div d
        r == n % d
    IN  IF 2 * r > d THEN q + 1
        ELSE IF 2 * r < d THEN q
        ELSE IF q % 2 = 0 THEN q ELSE q + 1

\* the text format_bytes produces: the printed number and its unit
format_bytes(bytes) ==
    IF bytes = 0 THEN [digits |-> 0, decimals |-> 0, unit |-> 0]
    ELSE LET u == unit_index(bytes) IN
         IF u = 0 THEN [digits |-> bytes, decimals |-> 0, unit |-> 0]
         ELSE [digits |-> Hundredths(bytes, u), decimals |-> 2, unit |-> u]

NoBytes == [digits |-> 0, decimals |-> 0, unit |-> -1]

\* a status text: which format string, and the values it interpolates
Msg(kind, freed, n) == [kind |-> kind, freed |-> freed, n |-> n]

\* cleanup_progress as a fraction in lowest terms
RECURSIVE Gcd(_, _)
Gcd(a, b) == IF b = 0 THEN a ELSE Gcd(b, a % b)

Frac(n, d) == LET g == Gcd(n, d) IN [num |-> n \div g, den |-> d \div g]

Zero == [num |-> 0, den |-> 1]

One == [num |-> 1, den |-> 1]

NoKey == [code |-> "none", modifiers |-> "NONE"]

KeyCodes == {"Up", "Down", " ", "Enter", "c", "y", "Y", "n", "N", "Esc", "d", "r", "q", "x"}

KeyEvents == [code : KeyCodes, modifiers : {"NONE", "CONTROL"}]

NoResult == [some |-> FALSE, total_freed |-> 0, errors |-> <<>>]

\* ------------------------------------------------------------------- Init
\* CleanerTUI::new over the list the scan returned, with the directories the
\* scan saw on disk
ProjectLists == UNION {[1 .. n -> RustProject] : n \in 0 .. MaxProjects}

Init ==
    /\ projects \in ProjectLists
    /\ dry_run \in BOOLEAN
    /\ fs \in [Indices -> {"none", "dir", "denied"}]
    /\ \A i \in Indices : (fs[i] = "none") <=> ~At(projects, i).target_info.some
    /\ selected = 0
    /\ list_state = 0
    /\ selected_projects = [i \in 1 .. Len(projects) |-> FALSE]
    /\ mode = "Browse"
    /\ status_message = Msg("Initial", NoBytes, 0)
    /\ total_freed_space = 0
    /\ cleanup_progress = Zero
    /\ pc = "read"
    /\ key = NoKey
    /\ pf = [i |-> 0, cleaned |-> 0, total_to_clean |-> 0]
    /\ cf = [i |-> 0, total_freed |-> 0, errors |-> <<>>]
    /\ fs_log = <<>>
    /\ result = NoResult
    /\ cleaner_calls = 0
    /\ fq = FqIdle
    /\ tq = TqIdle
    /\ sq = SqIdle
    /\ app = AppIdle
    /\ wk = WkIdle
    /\ nq = NqIdle

\* ------------------------------------------------------------ session loop
\* an exit check that holds in every mode but Browse
should_exit_not_browse == mode # "Browse"

\* should_exit
should_exit == mode = "Complete"

\* run_internal after a handler returned Ok: leave the loop or read the next event
LoopEnd(k) ==
    /\ pc' = IF should_exit' THEN "exited" ELSE "read"
    /\ key' = IF should_exit' THEN k ELSE NoKey
    /\ UNCHANGED <<pf, cf, fs_log, result, cleaner_calls, fs, projects, aux>>

\* a recomputation that adds to the bytes counted before
update_total_freed_space_added(sel) ==
    total_freed_space
        + SumOver(size_of, {i \in Indices : At(sel, i) /\ At(projects, i).target_info.some})

\* update_total_freed_space, over the selection vector sel
update_total_freed_space(sel) ==
    SumOver(size_of, {i \in Indices : At(sel, i) /\ At(projects, i).target_info.some})

\* a last index that is the length of the list
last_index_len == Len(projects)

\* projects.len().saturating_sub(1)
last_index == IF Len(projects) = 0 THEN 0 ELSE Len(projects) - 1

\* handle_browse_mode
handle_browse_mode(k) ==
    /\ CASE k.code = "Up" ->
              /\ selected' = IF selected > 0 THEN selected - 1 ELSE selected
              /\ list_state' = IF selected > 0 THEN selected - 1 ELSE list_state
              /\ UNCHANGED <<selected_projects, mode, status_message, total_freed_space>>
         [] k.code = "Down" ->
              /\ selected' = IF selected < last_index THEN selected + 1 ELSE selected
              /\ list_state' = IF selected < last_index THEN selected + 1 ELSE list_state
              /\ UNCHANGED <<selected_projects, mode, status_message, total_freed_space>>
         [] k.code = " " ->
              IF Len(projects) # 0
              THEN /\ selected_projects' =
                        [selected_projects EXCEPT ![selected + 1] = ~selected_projects[selected + 1]]
                   /\ total_freed_space' = update_total_freed_space(selected_projects')
                   /\ UNCHANGED <<selected, list_state, mode, status_message>>
              ELSE UNCHANGED <<selected, list_state, selected_projects, mode,
                               status_message, total_freed_space>>
         [] k.code = "Enter" ->
              /\ IF selected_count > 0
                 THEN /\ mode' = "Confirm"
                      /\ status_message' = Msg("ConfirmPrompt", NoBytes, selected_count)
                 ELSE /\ mode' = mode
                      /\ status_message' = Msg("NoneSelected", NoBytes, 0)
              /\ UNCHANGED <<selected, list_state, selected_projects, total_freed_space>>
         [] k.code = "c" /\ k.modifiers = "CONTROL" ->
              /\ mode' = "Complete"
              /\ UNCHANGED <<selected, list_state, selected_projects, status_message,
                             total_freed_space>>
         [] OTHER ->
              UNCHANGED <<selected, list_state, selected_projects, mode, status_message,
                          total_freed_space>>
    /\ UNCHANGED <<dry_run, cleanup_progress>>
    /\ LoopEnd(k)

\* a confirmation that Enter affirms as well
AffirmCodesEnter == {"y", "Y", "Enter"}

\* the key codes of handle_confirm_mode's affirm arm
AffirmCodes == {"y", "Y"}

\* a decline that clears the selection
selection_after_decline_cleared == [n \in 1 .. Len(selected_projects) |-> FALSE]

\* a decline that empties the selection vector
selection_after_decline_empty == <<>>

\* the selection vector after the decline arm of handle_confirm_mode
selection_after_decline == selected_projects

\* handle_confirm_mode; the affirm arm enters perform_cleanup
handle_confirm_mode(k) ==
    CASE k.code \in AffirmCodes ->
           /\ mode' = "Cleaning"
           /\ status_message' = Msg("Cleaning", NoBytes, 0)
           /\ pf' = [i |-> 0, cleaned |-> 0, total_to_clean |-> selected_count]
           /\ pc' = "perform_cleanup"
           /\ key' = k
           /\ UNCHANGED <<selected, list_state, selected_projects, total_freed_space,
                          dry_run, cleanup_progress, cf, fs_log, result, cleaner_calls,
                          fs, projects, aux>>
      [] k.code \in {"n", "N", "Esc"} ->
           /\ mode' = "Browse"
           /\ status_message' = Msg("Cancelled", NoBytes, 0)
           /\ selected_projects' = selection_after_decline
           /\ UNCHANGED <<selected, list_state, total_freed_space, dry_run,
                          cleanup_progress>>
           /\ LoopEnd(k)
      [] OTHER ->
           /\ UNCHANGED <<selected, list_state, selected_projects, mode, status_message,
                          total_freed_space, dry_run, cleanup_progress>>
           /\ LoopEnd(k)

\* a dispatch that handles a key read in Cleaning as one read in Confirm
handle_cleaning_mode_as_confirm(k) == handle_confirm_mode(k)

\* handle_cleaning_mode: input is disabled
handle_cleaning_mode(k) ==
    /\ UNCHANGED <<selected, list_state, selected_projects, mode, status_message,
                   total_freed_space, dry_run, cleanup_progress>>
    /\ LoopEnd(k)

\* handle_complete_mode
handle_complete_mode(k) ==
    /\ CASE k.code = "d" ->
              /\ dry_run' = ~dry_run
              /\ status_message' = Msg(IF dry_run' THEN "SwitchedDryRun" ELSE "SwitchedLive",
                                       NoBytes, 0)
              /\ UNCHANGED mode
         [] k.code = "r" ->
              /\ mode' = "Browse"
              /\ status_message' = Msg("BackToSelection", NoBytes, 0)
              /\ UNCHANGED dry_run
         [] OTHER -> UNCHANGED <<mode, status_message, dry_run>>
    /\ UNCHANGED <<selected, list_state, selected_projects, total_freed_space,
                   cleanup_progress>>
    /\ LoopEnd(k)

\* run_internal: one iteration of the loop, from event::read to the exit check
KeyEvent ==
    /\ pc = "read"
    /\ \E k \in KeyEvents :
         CASE mode = "Browse" -> handle_browse_mode(k)
           [] mode = "Confirm" -> handle_confirm_mode(k)
           [] mode = "Cleaning" -> handle_cleaning_mode(k)
           [] mode = "Complete" -> handle_complete_mode(k)

\* ----------------------------------------------------------------- cleanup
frame == <<selected, list_state, selected_projects, dry_run, projects>>

\* a cleanup that goes back to Browse when the last result holds errors
mode_after_cleanup_retry == IF result.errors # <<>> THEN "Browse" ELSE "Complete"

\* the mode perform_cleanup sets after its loop
mode_after_cleanup == "Complete"

\* perform_cleanup: one iteration of its loop over the projects, up to the call of
\* the Cleaner; after the loop, the transition to Complete and the return through
\* handle_confirm_mode to run_internal's exit check
perform_cleanup ==
    /\ pc = "perform_cleanup"
    /\ IF pf.i < Len(projects)
       THEN IF At(selected_projects, pf.i) /\ At(projects, pf.i).target_info.some
            THEN /\ pf' = [pf EXCEPT !.cleaned = pf.cleaned + 1]
                 /\ cleanup_progress' = Frac(pf.cleaned + 1, pf.total_to_clean)
                 /\ cf' = [i |-> 0, total_freed |-> 0, errors |-> <<>>]
                 /\ fs_log' = <<>>
                 /\ cleaner_calls' = cleaner_calls + 1
                 /\ pc' = "clean_selected_projects"
                 /\ UNCHANGED <<mode, status_message, total_freed_space, key>>
            ELSE /\ pf' = [pf EXCEPT !.i = pf.i + 1]
                 /\ UNCHANGED <<cleanup_progress, cf, fs_log, cleaner_calls, pc, mode,
                                status_message, total_freed_space, key>>
       ELSE /\ mode' = mode_after_cleanup
            /\ status_message' =
                 Msg(IF dry_run THEN "DryRunCompleteExit" ELSE "CleanupCompleteExit",
                     format_bytes(total_freed_space), 0)
            /\ cleanup_progress' = One
            /\ pc' = IF should_exit' THEN "exited" ELSE "read"
            /\ UNCHANGED <<pf, cf, fs_log, cleaner_calls, total_freed_space, key>>
    /\ UNCHANGED <<frame, fs, result, aux>>

\* the error string pushed for a failed removal: the path and the io error
ErrorMsg(i, e) == [path |-> i, error |-> e]

\* a call that passes false for dry_run
cleaner_dry_run_false == FALSE

\* the dry_run argument perform_cleanup passes to clean_selected_projects
cleaner_dry_run == dry_run

\* a Cleaner that stops at the first failed removal
index_after_error_break == Len(projects)

\* the loop index after the Err arm of the match on delete_target_directory
index_after_error == cf.i + 1

\* an existence check that always answers true
path_exists_always == TRUE

\* target_path.exists(), for the path of project cf.i
path_exists == Exists(fs[cf.i])

\* a lookup that takes every project as selected
selected_get_all(i) == TRUE

\* selected_indices.get(i).copied().unwrap_or(false)
selected_get(i) == IF i < Len(selected_projects) THEN At(selected_projects, i) ELSE FALSE

\* clean_selected_projects: one iteration of its loop, up to the call of
\* delete_target_directory; after the loop, the return of the CleanupResult and the
\* Ok arm of perform_cleanup's match
clean_selected_projects ==
    /\ pc = "clean_selected_projects"
    /\ IF cf.i < Len(projects)
       THEN /\ IF selected_get(cf.i) /\ At(projects, cf.i).target_info.some
               THEN IF cleaner_dry_run
                    THEN /\ cf' = [cf EXCEPT !.i = cf.i + 1,
                                             !.total_freed = cf.total_freed + size_of[cf.i]]
                         /\ pc' = pc
                    ELSE /\ pc' = "delete_target_directory"
                         /\ cf' = cf
               ELSE /\ cf' = [cf EXCEPT !.i = cf.i + 1]
                    /\ pc' = pc
            /\ UNCHANGED <<result, status_message, total_freed_space, pf>>
       ELSE /\ result' = [some |-> TRUE, total_freed |-> cf.total_freed, errors |-> cf.errors]
            /\ status_message' =
                 IF dry_run
                 THEN Msg("DryRunComplete", format_bytes(cf.total_freed), 0)
                 ELSE Msg("CleanupCompleteErrors", format_bytes(cf.total_freed), Len(cf.errors))
            /\ total_freed_space' = cf.total_freed
            /\ pf' = [pf EXCEPT !.i = pf.i + 1]
            /\ pc' = "perform_cleanup"
            /\ cf' = cf
    /\ UNCHANGED <<frame, fs, fs_log, mode, cleanup_progress, key, cleaner_calls, aux>>

\* delete_target_directory, the existence check: a missing path is Ok(()), and the
\* caller's Ok arm adds the size
delete_target_directory ==
    /\ pc = "delete_target_directory"
    /\ IF ~path_exists
       THEN /\ cf' = [cf EXCEPT !.i = cf.i + 1,
                                !.total_freed = cf.total_freed + size_of[cf.i]]
            /\ fs_log' = Append(fs_log, [index |-> cf.i, outcome |-> "missing"])
            /\ pc' = "clean_selected_projects"
       ELSE /\ pc' = "remove_dir_all"
            /\ UNCHANGED <<cf, fs_log>>
    /\ UNCHANGED <<frame, fs, result, status_message, total_freed_space, pf, mode,
                   cleanup_progress, key, cleaner_calls, aux>>

\* delete_target_directory, fs::remove_dir_all(target_path)?, and the caller's match
\* on its result
remove_dir_all ==
    /\ pc = "remove_dir_all"
    /\ CASE fs[cf.i] = "dir" ->
              /\ fs' = [fs EXCEPT ![cf.i] = "cleaned"]
              /\ cf' = [cf EXCEPT !.i = cf.i + 1,
                                  !.total_freed = cf.total_freed + size_of[cf.i]]
              /\ fs_log' = Append(fs_log, [index |-> cf.i, outcome |-> "removed"])
         [] fs[cf.i] = "denied" ->
              /\ fs' = fs
              /\ cf' = [cf EXCEPT !.i = index_after_error,
                                  !.errors = Append(cf.errors, ErrorMsg(cf.i, "PermissionDenied"))]
              /\ fs_log' = Append(fs_log, [index |-> cf.i, outcome |-> "failed"])
         [] OTHER ->
              /\ fs' = fs
              /\ cf' = [cf EXCEPT !.i = index_after_error,
                                  !.errors = Append(cf.errors, ErrorMsg(cf.i, "NotFound"))]
              /\ fs_log' = Append(fs_log, [index |-> cf.i, outcome |-> "failed"])
    /\ pc' = "clean_selected_projects"
    /\ UNCHANGED <<frame, result, status_message, total_freed_space, pf, mode,
                   cleanup_progress, key, cleaner_calls, aux>>

\* another process removes a build-output directory
ExternalRemove ==
    /\ \E i \in Indices :
         /\ Exists(fs[i])
         /\ fs' = [fs EXCEPT ![i] = "gone"]
    /\ UNCHANGED <<frame, mode, status_message, total_freed_space, cleanup_progress, pc,
                   key, pf, cf, fs_log, result, cleaner_calls, aux>>

Next ==
    \/ KeyEvent
    \/ perform_cleanup
    \/ clean_selected_projects
    \/ delete_target_directory
    \/ remove_dir_all
    \/ ExternalRemove

Spec == Init /\ [][Next]_vars

\* the session's thread always takes its next step; the other process need not act
FairSpec == Spec /\ WF_vars(perform_cleanup) /\ WF_vars(clean_selected_projects)
                 /\ WF_vars(delete_target_directory) /\ WF_vars(remove_dir_all)

\* The key handlers as a transition function over AppState: run_internal's match
\* on the mode, started on any well-formed AppState (any mode, focus and selection)
\* instead of the state CleanerTUI::new builds.
InitAny ==
    /\ projects \in ProjectLists
    /\ dry_run \in BOOLEAN
    /\ fs \in [Indices -> {"none", "dir", "denied"}]
    /\ \A i \in Indices : (fs[i] = "none") <=> ~At(projects, i).target_info.some
    /\ selected \in 0 .. last_index
    /\ list_state = selected
    /\ selected_projects \in [1 .. Len(projects) -> BOOLEAN]
    /\ mode \in {"Browse", "Confirm", "Cleaning", "Complete"}
    /\ mode = "Confirm" => selected_count > 0
    /\ status_message = Msg("Initial", NoBytes, 0)
    /\ total_freed_space = update_total_freed_space(selected_projects)
    /\ cleanup_progress = Zero
    /\ pc = "read"
    /\ key = NoKey
    /\ pf = [i |-> 0, cleaned |-> 0, total_to_clean |-> 0]
    /\ cf = [i |-> 0, total_freed |-> 0, errors |-> <<>>]
    /\ fs_log = <<>>
    /\ result = NoResult
    /\ cleaner_calls = 0
    /\ fq = FqIdle
    /\ tq = TqIdle
    /\ sq = SqIdle
    /\ app = AppIdle
    /\ wk = WkIdle
    /\ nq = NqIdle

HandlerSpec == InitAny /\ [][Next]_vars

TypeOK ==
    /\ mode \in {"Browse", "Confirm", "Cleaning", "Complete"}
    /\ pc \in {"idle", "read", "perform_cleanup", "clean_selected_projects",
               "delete_target_directory", "remove_dir_all", "exited"}
    /\ Len(selected_projects) = Len(projects)
    /\ dry_run \in BOOLEAN

\* ------------------------------------------------------------- path filter
\* A path is the sequence of its bytes, a string the sequence of its characters.
\* "xFF" is a byte that is not valid UTF-8, "FFFD" the replacement character.
MaxPathLen == 3

MaxEntryLen == 1

MaxEntries == 2

PathBytes == {"/", "a", "xFF"}

StrChars == {"/", "a", "FFFD"}

PathsUpTo(n) == UNION {[1 .. m -> PathBytes] : m \in 0 .. n}

StringsUpTo(n) == UNION {[1 .. m -> StrChars] : m \in 0 .. n}

PathLists == UNION {[1 .. m -> PathsUpTo(MaxEntryLen)] : m \in 0 .. MaxEntries}

PatternLists == UNION {[1 .. m -> StringsUpTo(MaxEntryLen)] : m \in 0 .. MaxEntries}

\* std::path::MAIN_SEPARATOR (unix)
MAIN_SEPARATOR == "/"

\* Path::to_string_lossy: an invalid byte becomes U+FFFD
to_string_lossy(path) ==
    [n \in 1 .. Len(path) |-> IF path[n] = "xFF" THEN "FFFD" ELSE path[n]]

RECURSIVE len(_)
\* str::len, in bytes: U+FFFD takes three
len(str) ==
    IF str = <<>> THEN 0
    ELSE (IF Head(str) = "FFFD" THEN 3 ELSE 1) + len(Tail(str))

\* str::starts_with
starts_with(str, prefix) ==
    Len(prefix) <= Len(str) /\ SubSeq(str, 1, Len(prefix)) = prefix

\* str::contains
contains(str, pat) ==
    \E off \in 0 .. (Len(str) - Len(pat)) : SubSeq(str, off + 1, off + Len(pat)) = pat

\* str.chars().nth(n)
chars_nth(str, n) == IF n < Len(str) THEN str[n + 1] ELSE "None"

\* an exclude check that looks at the first pattern only
is_excluded_first_only(path, patterns) ==
    Len(patterns) > 0 /\ contains(to_string_lossy(path), patterns[1])

\* is_excluded
is_excluded(path, patterns) ==
    LET path_str == to_string_lossy(path) IN
    \E n \in 1 .. Len(patterns) : contains(path_str, patterns[n])

\* an ignore check that takes exact matches only
ignore_matches_exact(path, ignore_path) == path = ignore_path

\* is_ignored_path, the body of its loop: the three tests on one ignore entry
ignore_matches(path, ignore_path) ==
    LET normalized_path == to_string_lossy(path)
        normalized_ignore == to_string_lossy(ignore_path)
        ignore_with_slash == normalized_ignore \o <<"/">>
    IN  \/ contains(normalized_path, normalized_ignore)
        \/ starts_with(normalized_path, ignore_with_slash)
        \/ /\ starts_with(normalized_path, normalized_ignore)
           /\ \/ len(normalized_path) = len(normalized_ignore)
              \/ chars_nth(normalized_path, len(normalized_ignore)) = "/"
              \/ chars_nth(normalized_path, len(normalized_ignore)) = MAIN_SEPARATOR

\* is_ignored_path
is_ignored_path(path, ignore_paths) ==
    \E n \in 1 .. Len(ignore_paths) : ignore_matches(path, ignore_paths[n])

\* the controller and the Cleaner do not run
ControllerIdle ==
    /\ projects = <<>>
    /\ fs = <<>>
    /\ selected = 0
    /\ list_state = 0
    /\ selected_projects = <<>>
    /\ mode = "Browse"
    /\ status_message = Msg("Initial", NoBytes, 0)
    /\ total_freed_space = 0
    /\ cleanup_progress = Zero
    /\ pc = "idle"
    /\ key = NoKey
    /\ pf = [i |-> 0, cleaned |-> 0, total_to_clean |-> 0]
    /\ cf = [i |-> 0, total_freed |-> 0, errors |-> <<>>]
    /\ fs_log = <<>>
    /\ result = NoResult
    /\ cleaner_calls = 0

ctl == <<projects, dry_run, selected, list_state, selected_projects, mode,
         status_message, total_freed_space, cleanup_progress, fs, pc, key,
         pf, cf, fs_log, result, cleaner_calls>>

\* the arguments of one call: a path, and either ignore entries or exclude patterns
FilterInit ==
    /\ ControllerIdle
    /\ dry_run = TRUE
    /\ sq = SqIdle
    /\ tq = TqIdle
    /\ app = AppIdle
    /\ wk = WkIdle
    /\ nq = NqIdle
    /\ \E path \in PathsUpTo(MaxPathLen) :
         \/ \E ignore_paths \in PathLists :
              fq = [phase |-> "args", path |-> path, ignore_paths |-> ignore_paths,
                    exclude_patterns |-> <<>>, value |-> FALSE]
         \/ \E patterns \in PatternLists :
              fq = [phase |-> "args", path |-> path, ignore_paths |-> <<>>,
                    exclude_patterns |-> patterns, value |-> FALSE]

CallIsIgnoredPath ==
    /\ fq.phase = "args"
    /\ fq' = [fq EXCEPT !.phase = "is_ignored_path",
                        !.value = is_ignored_path(fq.path, fq.ignore_paths)]
    /\ UNCHANGED <<ctl, sq, tq, app, wk, nq>>

CallIsExcluded ==
    /\ fq.phase = "args"
    /\ fq' = [fq EXCEPT !.phase = "is_excluded",
                        !.value = is_excluded(fq.path, fq.exclude_patterns)]
    /\ UNCHANGED <<ctl, sq, tq, app, wk, nq>>

FilterNext == CallIsIgnoredPath \/ CallIsExcluded

FilterSpec == FilterInit /\ [][FilterNext]_vars

\* ------------------------------------------------------------ target finder
\* The walk of a build-output directory is the sequence of what WalkDir meets,
\* in its order, with equal neighbours written as one run:
\*   kind      "file" a regular file, "symlink" a symbolic link, "dir" a directory
\*   len       the size in bytes (of a symlink: of the file it points to)
\*   n         the number of such entries in a row
\*   err       "none"; "entry": WalkDir yields Err for it (it lies in a directory
\*             that cannot be read); "metadata": entry.metadata() fails
\*   top       whether it is a direct child of the build-output directory
\*   modified  its modification time, in days
\* Times are whole days.
MaxRuns == 2

RunLengths == {1, 2, 10000, 100001}

\* SystemTime::now()
now == 40

FileRuns == [kind : {"file"}, len : Sizes, n : RunLengths,
             err : {"none", "entry", "metadata"}, top : BOOLEAN, modified : {now}]

SymlinkRuns == [kind : {"symlink"}, len : {2048}, n : {1}, err : {"none"},
                top : BOOLEAN, modified : {now}]

DirRuns == [kind : {"dir"}, len : {0}, n : {1}, err : {"none"}, top : BOOLEAN,
            modified : {now}]

Walks == UNION {[1 .. m -> FileRuns \cup SymlinkRuns \cup DirRuns] : m \in 0 .. MaxRuns}

Min(a, b) == IF a < b THEN a ELSE b

RECURSIVE count_top(_, _)
count_top(entries, k) ==
    IF k > Len(entries) THEN 0
    ELSE (IF entries[k].top /\ entries[k].err # "entry" THEN entries[k].n ELSE 0)
         + count_top(entries, k + 1)

\* count_directory_entries: the loop leaves when count > 100000
count_directory_entries(entries) == Min(count_top(entries, 1), 100000 + 1)

\* calculate_directory_size: the entries that reach total_size += metadata.len()
counted(e) == e.kind = "file" /\ e.err = "none"

RECURSIVE size_walk(_, _, _, _)
\* calculate_directory_size, its loop from the k-th run on
size_walk(entries, k, total_size, file_count) ==
    IF k > Len(entries) THEN total_size
    ELSE LET e == entries[k] IN
         IF ~counted(e) THEN size_walk(entries, k + 1, total_size, file_count)
         ELSE IF file_count + e.n > 10000
              THEN LET seen == (10000 + 1) - file_count
                       avg_size == (total_size + seen * e.len) \div (10000 + 1)
                   IN  avg_size * count_directory_entries(entries)
              ELSE size_walk(entries, k + 1, total_size + e.n * e.len, file_count + e.n)

\* calculate_directory_size
calculate_directory_size(entries) == size_walk(entries, 1, 0, 0)

RECURSIVE time_walk(_, _, _, _, _)
\* get_last_accessed_time, its loop from the k-th run on; after the loop the
\* 30 days default
time_walk(entries, k, last_modified, found_older_file, files_checked) ==
    IF k > Len(entries) \/ files_checked > 100
    THEN IF found_older_file THEN last_modified ELSE now - 30
    ELSE LET e == entries[k] IN
         IF e.kind # "file" \/ e.err = "entry"
         THEN time_walk(entries, k + 1, last_modified, found_older_file, files_checked)
         ELSE LET older == e.err = "none" /\ e.modified < last_modified IN
              time_walk(entries, k + 1,
                        IF older THEN e.modified ELSE last_modified,
                        found_older_file \/ older,
                        Min(files_checked + e.n, 100 + 1))

\* get_last_accessed_time
get_last_accessed_time(dir) == time_walk(dir.entries, 1, dir.modified, FALSE, 0)

\* a staleness test that asks for twice the threshold
is_stale_twice(last_accessed, threshold) ==
    (IF now >= last_accessed THEN now - last_accessed ELSE 0) >= 2 * threshold

\* a staleness test without saturation
is_stale_unsaturated(last_accessed, threshold) == now - last_accessed >= threshold

\* a staleness test on the distance between the two times
is_stale_distance(last_accessed, threshold) ==
    (IF now >= last_accessed THEN now - last_accessed ELSE last_accessed - now) >= threshold

\* is_stale
is_stale(last_accessed, threshold) ==
    LET time_diff == IF now >= last_accessed THEN now - last_accessed ELSE 0
    IN  time_diff >= threshold

\* the arguments of one call: the walk of a build-output directory
SizeInit ==
    /\ ControllerIdle
    /\ dry_run = TRUE
    /\ fq = FqIdle
    /\ tq = TqIdle
    /\ app = AppIdle
    /\ wk = WkIdle
    /\ nq = NqIdle
    /\ \E entries \in Walks : sq = [phase |-> "args", entries |-> entries, value |-> 0]

CallCalculateDirectorySize ==
    /\ sq.phase = "args"
    /\ sq' = [sq EXCEPT !.phase = "calculate_directory_size",
                        !.value = calculate_directory_size(sq.entries)]
    /\ UNCHANGED <<ctl, fq, tq, app, wk, nq>>

SizeNext == CallCalculateDirectorySize

SizeSpec == SizeInit /\ [][SizeNext]_vars

\* the times of the calls: before, at and after now
Days == {now - 8, now - 7, now - 1, now, now + 1}

\* Config.stale_threshold in days: the default, and values of `lastseen`
Thresholds == {0, 1, 7}

\* the runs of a walk whose times differ
TimedRuns == [kind : {"file"}, len : {10}, n : {1, 101},
              err : {"none", "entry", "metadata"}, top : {TRUE}, modified : {now - 8, now - 1}]
                 \cup [kind : {"dir"}, len : {0}, n : {1}, err : {"none"}, top : {TRUE},
                       modified : {now - 1}]

TimedWalks == UNION {[1 .. m -> TimedRuns] : m \in 0 .. MaxRuns}

\* the arguments of one call: a build-output directory, or a time and a threshold
TimeInit ==
    /\ ControllerIdle
    /\ dry_run = TRUE
    /\ fq = FqIdle
    /\ sq = SqIdle
    /\ app = AppIdle
    /\ wk = WkIdle
    /\ nq = NqIdle
    /\ \/ \E modified \in {now - 8, now - 1}, entries \in TimedWalks :
            tq = [TqIdle EXCEPT !.phase = "dir",
                                !.dir = [modified |-> modified, entries |-> entries]]
       \/ \E last_accessed \in Days, threshold \in Thresholds :
            tq = [TqIdle EXCEPT !.phase = "times", !.last_accessed = last_accessed,
                                !.threshold = threshold]

CallGetLastAccessedTime ==
    /\ tq.phase = "dir"
    /\ tq' = [tq EXCEPT !.phase = "get_last_accessed_time",
                        !.value = get_last_accessed_time(tq.dir)]
    /\ UNCHANGED <<ctl, fq, sq, app, wk, nq>>

\* is_stale wraps its answer in Ok and has no other return
CallIsStale ==
    /\ tq.phase = "times"
    /\ tq' = [tq EXCEPT !.phase = "is_stale",
                        !.value = [ok |-> TRUE,
                                   stale |-> is_stale(tq.last_accessed, tq.threshold)]]
    /\ UNCHANGED <<ctl, fq, sq, app, wk, nq>>

TimeNext == CallGetLastAccessedTime \/ CallIsStale

TimeSpec == TimeInit /\ [][TimeNext]_vars

\* ------------------------------------------------------- main, App, scanner
\* What is on disk when the program starts: the search paths of the configuration,
\* and below each the manifests (files named Cargo.toml) in the order WalkDir
\* meets them.  While the program runs nothing but the program changes the disk.
\*   name_ok  RustProject::from_path succeeds on the manifest's directory
\*   target   the directory "target" next to the manifest, or NoDir
MaxRoots == 2

MaxManifests == 3

\* Config::default, stale_threshold in days
stale_threshold == 7

NoDir == [is_dir |-> FALSE, modified |-> 0, entries |-> <<>>]

OneFile(bytes, day) ==
    << [kind |-> "file", len |-> bytes, n |-> 1, err |-> "none", top |-> TRUE,
        modified |-> day] >>

\* 10 bytes, last written two days ago
Dir10 == [is_dir |-> TRUE, modified |-> now - 1, entries |-> OneFile(10, now - 2)]

\* 2048 bytes, last written ten days ago
Dir2048 == [is_dir |-> TRUE, modified |-> now - 9, entries |-> OneFile(2048, now - 10)]

\* named manifests with each kind of target, and one whose name cannot be resolved
Manifests == [name_ok : {TRUE}, target : {NoDir, Dir10, Dir2048}]
                 \cup {[name_ok |-> FALSE, target |-> Dir10]}

ManifestLists == UNION {[1 .. m -> Manifests] : m \in 0 .. MaxManifests}

\* the search paths with what lies below them: the manifests lie below one search
\* path, the others hold none; nothing lies below a path that does not exist
SearchPathLists ==
    UNION {
      { [r \in 1 .. nr |-> [exists |-> exists[r],
                            manifests |-> IF r = home /\ exists[r] THEN manifests ELSE <<>>]] :
        manifests \in ManifestLists, exists \in [1 .. nr -> BOOLEAN], home \in 1 .. nr }
      : nr \in 1 .. MaxRoots }

\* a validation that looks at the first search path only
new_with_ignores_first_only(search_paths) == search_paths[1].exists

\* RustProjectScanner::new_with_ignores: Ok iff every search path exists
new_with_ignores(search_paths) ==
    \A r \in 1 .. Len(search_paths) : search_paths[r].exists

\* RustProject::from_path
from_path(manifest) == manifest.name_ok

\* TargetFinder::find_target_info
find_target_info(manifest) ==
    IF ~manifest.target.is_dir THEN NoTarget
    ELSE [some |-> TRUE,
          size_bytes |-> calculate_directory_size(manifest.target.entries),
          last_accessed |-> get_last_accessed_time(manifest.target),
          is_stale |-> FALSE]

\* a scan that lists a project whether or not it has a build-output directory
pushed_any_target(manifest) == from_path(manifest)

\* scan_path: the manifests whose project is pushed
pushed(manifest) == from_path(manifest) /\ find_target_info(manifest).some

\* the configuration and the disk at the start of main
AppInit ==
    /\ ControllerIdle
    /\ dry_run \in BOOLEAN
    /\ fq = FqIdle
    /\ tq = TqIdle
    /\ sq = SqIdle
    /\ wk = WkIdle
    /\ nq = NqIdle
    /\ \E search_paths \in SearchPathLists :
         app = [phase |-> "main", search_paths |-> search_paths, path |-> 0, entry |-> 0,
                projects |-> <<>>, enumerated |-> 0, tx |-> "open",
                loading_indicator |-> "none", i |-> 0]

\* App::new
AppNew ==
    /\ app.phase = "main"
    /\ app' = [app EXCEPT !.phase = IF new_with_ignores(app.search_paths)
                                    THEN "run" ELSE "failed"]
    /\ UNCHANGED <<ctl, fq, sq, tq, wk, nq>>

\* App::run up to the call of find_projects: the worker is spawned
AppRun ==
    /\ app.phase = "run"
    /\ app' = [app EXCEPT !.phase = "find_projects", !.loading_indicator = "running",
                          !.path = 1, !.entry = 1]
    /\ UNCHANGED <<ctl, fq, sq, tq, wk, nq>>

\* scan_path: WalkDir yields the next manifest of the current search path
ScanManifest ==
    /\ app.phase = "find_projects"
    /\ app.path <= Len(app.search_paths)
    /\ app.entry <= Len(app.search_paths[app.path].manifests)
    /\ LET manifest == app.search_paths[app.path].manifests[app.entry]
           project == [path |-> <<app.path, app.entry>>,
                       target_info |-> find_target_info(manifest)]
       IN  app' = [app EXCEPT !.entry = @ + 1,
                              !.enumerated = @ + 1,
                              !.projects = IF pushed(manifest)
                                           THEN Append(@, project) ELSE @]
    /\ UNCHANGED <<ctl, fq, sq, tq, wk, nq>>

\* scan_path returns, find_projects goes to the next search path
ScanPathDone ==
    /\ app.phase = "find_projects"
    /\ app.path <= Len(app.search_paths)
    /\ app.entry > Len(app.search_paths[app.path].manifests)
    /\ app' = [app EXCEPT !.path = @ + 1, !.entry = 1]
    /\ UNCHANGED <<ctl, fq, sq, tq, wk, nq>>

\* find_projects returns Ok; App::run sends the stop signal and waits in join
FindProjectsDone ==
    /\ app.phase = "find_projects"
    /\ app.path > Len(app.search_paths)
    /\ app' = [app EXCEPT !.phase = "join", !.tx = "sent"]
    /\ UNCHANGED <<ctl, fq, sq, tq, wk, nq>>

\* crab_frames.len()
crab_frames_len == 9

\* a receiver that never finds the signal
try_recv_empty(tx) == "Err"

\* rx.try_recv(), the sender being alive
try_recv(tx) == IF tx = "sent" THEN "Ok" ELSE "Err"

\* the worker's loop test finds no signal: it draws a frame and sleeps
IndicatorFrame ==
    /\ app.loading_indicator = "running"
    /\ try_recv(app.tx) = "Err"
    /\ app' = [app EXCEPT !.i = (@ + 1) % crab_frames_len]
    /\ UNCHANGED <<ctl, fq, sq, tq, wk, nq>>

\* the worker's loop test finds the signal: it prints its last line and ends
IndicatorExit ==
    /\ app.loading_indicator = "running"
    /\ try_recv(app.tx) = "Ok"
    /\ app' = [app EXCEPT !.loading_indicator = "finished", !.i = 0]
    /\ UNCHANGED <<ctl, fq, sq, tq, wk, nq>>

\* a construction that leaves the projects unclassified
update_stale_status_skipped(project) == project

\* update_stale_status, for the projects that have target info
update_stale_status(project) ==
    IF project.target_info.some
    THEN [project EXCEPT !.target_info.is_stale =
              is_stale(project.target_info.last_accessed, stale_threshold)]
    ELSE project

\* a main thread that does not wait for the worker
join_detached(loading_indicator) == TRUE

\* loading_indicator.join() returns
join(loading_indicator) == loading_indicator = "finished"

\* join returns; CleanerTUI::new, and tui.run() enters its loop
TuiNew ==
    /\ app.phase = "join"
    /\ join(app.loading_indicator)
    /\ app' = [app EXCEPT !.phase = "tui"]
    /\ projects' = [n \in 1 .. Len(app.projects) |-> update_stale_status(app.projects[n])]
    /\ fs' = [i \in 0 .. (Len(app.projects) - 1) |-> "dir"]
    /\ selected' = 0
    /\ list_state' = 0
    /\ selected_projects' = [n \in 1 .. Len(app.projects) |-> FALSE]
    /\ mode' = "Browse"
    /\ status_message' = Msg("Initial", NoBytes, 0)
    /\ total_freed_space' = 0
    /\ cleanup_progress' = Zero
    /\ pc' = "read"
    /\ UNCHANGED <<dry_run, key, pf, cf, fs_log, result, cleaner_calls, fq, sq, tq, wk, nq>>

AppNext ==
    \/ AppNew
    \/ AppRun
    \/ ScanManifest
    \/ ScanPathDone
    \/ FindProjectsDone
    \/ IndicatorFrame
    \/ IndicatorExit
    \/ TuiNew
    \/ KeyEvent
    \/ perform_cleanup
    \/ clean_selected_projects
    \/ delete_target_directory
    \/ remove_dir_all

AppSpec == AppInit /\ [][AppNext]_vars

\* App::run without the operator: the two threads up to the controller's construction
RunNext ==
    \/ AppNew
    \/ AppRun
    \/ ScanManifest
    \/ ScanPathDone
    \/ FindProjectsDone
    \/ IndicatorFrame
    \/ IndicatorExit
    \/ TuiNew

\* both threads are scheduled again and again: the main thread takes its next step,
\* and the worker comes back to its loop test
FairRunSpec ==
    /\ AppInit /\ [][RunNext]_vars
    /\ WF_vars(AppNew \/ AppRun \/ ScanManifest \/ ScanPathDone \/ FindProjectsDone \/ TuiNew)
    /\ WF_vars(IndicatorFrame \/ IndicatorExit)

\* --------------------------------------------------------------- discovery
\* find_projects over a directory tree.  An entry of the disk is its path; the same
\* tree lies below every search path.  The manifest's file name is written as the
\* one symbol "Cargo.toml"; no pattern and no ignore entry here holds a part of it.
\* What stands next to a manifest (its package name, its build output) is met when
\* the walk yields the manifest.  WalkDir reads a directory's entries one at a time,
\* in the order the filesystem gives them.
MaxDepth == 2

MaxDirs == 2

DirNames == {"a", "xFF"}

\* the directories a tree can hold, as paths relative to the search path
RelDirs ==
    UNION { { rel \in [1 .. 2 * d -> PathBytes] :
                \A n \in 1 .. 2 * d : IF n % 2 = 1 THEN rel[n] = "/" ELSE rel[n] \in DirNames }
            : d \in 1 .. MaxDepth }

\* Path::parent
parent(path) == SubSeq(path, 1, Len(path) - 2)

\* the trees: every directory but the search path lies in a directory of the tree;
\* a manifest may lie in each directory
Trees ==
    UNION { { [dirs |-> dirs, manifests |-> manifests] :
              manifests \in SUBSET (dirs \cup {<<>>}) }
            : dirs \in { ds \in SUBSET RelDirs :
                           /\ Cardinality(ds) <= MaxDirs
                           /\ \A rel \in ds : Len(rel) > 2 => parent(rel) \in ds } }

SearchPathChoices == { << <<"/", "a">> >>, << <<"/", "xFF">>, <<"/", "a">> >>,
                       << <<"/", "a">>, <<"/", "a">> >> }

ExcludeChoices == { <<>>, << <<"FFFD">> >>, << <<"a", "/", "a">> >> }

IgnoreChoices == { <<>>, << <<"/", "xFF">> >>, << <<"/", "a", "/", "a">> >>,
                   << <<"/", "a">> >> }

\* DirEntry::file_type().is_dir()
is_dir(path) == path[Len(path)] # "Cargo.toml"

\* fs::read_dir: the entries directly in a directory
read_dir(entries, dir) == { path \in entries : Len(path) = Len(dir) + 2 /\ parent(path) = dir }

\* the closure handed to filter_entry
predicate(path, exclude_patterns, ignore_paths) ==
    ~is_excluded(path, exclude_patterns) /\ ~is_ignored_path(path, ignore_paths)

\* a walk that filters what it yields and descends all the same
filter_entry_yield_only(stack_list, dent, keep) == stack_list

\* filter_entry: a directory the closure rejects is not descended into
filter_entry(stack_list, dent, keep) ==
    IF ~keep /\ is_dir(dent) THEN SubSeq(stack_list, 1, Len(stack_list) - 1)
    ELSE stack_list

\* a scanner, its search paths, and the disk
WalkInit ==
    /\ ControllerIdle
    /\ dry_run = TRUE
    /\ fq = FqIdle
    /\ sq = SqIdle
    /\ tq = TqIdle
    /\ app = AppIdle
    /\ nq = NqIdle
    /\ \E tree \in Trees, search_paths \in SearchPathChoices,
          exclude_patterns \in ExcludeChoices, ignore_paths \in IgnoreChoices :
         wk = [phase |-> "new",
               entries |-> UNION { { search_paths[r] \o rel : rel \in tree.dirs }
                                     \cup { search_paths[r] \o rel \o <<"/", "Cargo.toml">> :
                                             rel \in tree.manifests }
                                     \cup { search_paths[r] }
                                   : r \in 1 .. Len(search_paths) },
               search_paths |-> search_paths,
               exclude_patterns |-> exclude_patterns, ignore_paths |-> ignore_paths,
               filtered_paths |-> <<>>, path |-> 0, stack_list |-> <<>>,
               read |-> {}, projects |-> <<>>]

\* find_projects up to its loop: the search paths that are not ignored
FindProjects ==
    /\ wk.phase = "new"
    /\ LET kept(path) == ~is_ignored_path(path, wk.ignore_paths)
       IN  wk' = [wk EXCEPT !.phase = "find_projects",
                            !.filtered_paths = SelectSeq(wk.search_paths, kept),
                            !.path = 1]
    /\ UNCHANGED <<ctl, fq, sq, tq, app, nq>>

\* find_projects, its loop: it tests the search path once more, then calls
\* scan_path, which starts the walk at the search path
ScanPath ==
    /\ wk.phase = "find_projects"
    /\ wk.path <= Len(wk.filtered_paths)
    /\ wk' = IF is_ignored_path(wk.filtered_paths[wk.path], wk.ignore_paths)
             THEN [wk EXCEPT !.path = @ + 1]
             ELSE [wk EXCEPT !.phase = "scan_path",
                             !.stack_list = << {wk.filtered_paths[wk.path]} >>]
    /\ UNCHANGED <<ctl, fq, sq, tq, app, nq>>

\* scan_path, one entry: the walk reads the next entry of the directory it is in,
\* opens it if it is a directory, and asks the closure; the loop body looks at
\* what passes
WalkEntry ==
    /\ wk.phase = "scan_path"
    /\ wk.stack_list # <<>>
    /\ \E dent \in wk.stack_list[Len(wk.stack_list)], manifest \in Manifests :
         LET keep == predicate(dent, wk.exclude_patterns, wk.ignore_paths)
             rest == [wk.stack_list EXCEPT ![Len(wk.stack_list)] = @ \ {dent}]
             opened == IF is_dir(dent) THEN Append(rest, read_dir(wk.entries, dent))
                       ELSE rest
         IN  wk' = [wk EXCEPT !.read = @ \cup {dent},
                              !.stack_list = filter_entry(opened, dent, keep),
                              !.projects = IF keep /\ ~is_dir(dent) /\ pushed(manifest)
                                           THEN Append(@, dent) ELSE @]
    /\ UNCHANGED <<ctl, fq, sq, tq, app, nq>>

\* the walk has read the whole directory it is in and goes back up
WalkPop ==
    /\ wk.phase = "scan_path"
    /\ wk.stack_list # <<>>
    /\ wk.stack_list[Len(wk.stack_list)] = {}
    /\ wk' = [wk EXCEPT !.stack_list = SubSeq(@, 1, Len(@) - 1)]
    /\ UNCHANGED <<ctl, fq, sq, tq, app, nq>>

\* the walk ends, scan_path returns, find_projects goes to the next search path
WalkDone ==
    /\ wk.phase = "scan_path"
    /\ wk.stack_list = <<>>
    /\ wk' = [wk EXCEPT !.phase = "find_projects", !.path = @ + 1]
    /\ UNCHANGED <<ctl, fq, sq, tq, app, nq>>

\* find_projects returns
WalkReturn ==
    /\ wk.phase = "find_projects"
    /\ wk.path > Len(wk.filtered_paths)
    /\ wk' = [wk EXCEPT !.phase = "returned"]
    /\ UNCHANGED <<ctl, fq, sq, tq, app, nq>>

WalkNext ==
    \/ FindProjects
    \/ ScanPath
    \/ WalkEntry
    \/ WalkPop
    \/ WalkDone
    \/ WalkReturn

WalkSpec == WalkInit /\ [][WalkNext]_vars

\* --------------------------------------------------------- name resolution
\* A manifest is the text of Cargo.toml, line by line and character by character,
\* whether it can be read, and the last component of the path of its directory.
MaxLines == 4

PackageHeader == <<"[", "p", "a", "c", "k", "a", "g", "e", "]">>

NameKey == <<"n", "a", "m", "e">>

\* the lines a manifest is made of
ManifestLines ==
    { PackageHeader,
      <<" ", "[", "p", "a", "c", "k", "a", "g", "e", "]", " ">>,
      <<"[", "l", "i", "b", "]">>,
      <<"n", "a", "m", "e", " ", "=", " ", "\"", "x", "\"">>,
      <<" ", "n", "a", "m", "e", "=", "'", "y", "=", "z", "'">>,
      <<"n", "a", "m", "e">>,
      <<"v", "=", "1">> }

\* Path::file_name of the manifest's directory, and whether it is valid UTF-8
FileNames == { [some |-> TRUE, utf8 |-> TRUE, name |-> <<"p">>],
               [some |-> TRUE, utf8 |-> FALSE, name |-> <<"xFF">>],
               [some |-> FALSE, utf8 |-> FALSE, name |-> <<>>] }

CargoTomls ==
    [readable : {TRUE}, lines : UNION {[1 .. m -> ManifestLines] : m \in 0 .. MaxLines},
     file_name : FileNames]
        \cup [readable : {FALSE}, lines : {<<>>}, file_name : FileNames]

RECURSIVE trim_start_matches(_, _)
\* str::trim_start_matches
trim_start_matches(str, ch) ==
    IF str # <<>> /\ Head(str) = ch THEN trim_start_matches(Tail(str), ch) ELSE str

RECURSIVE trim_end_matches(_, _)
\* str::trim_end_matches
trim_end_matches(str, ch) ==
    IF str # <<>> /\ str[Len(str)] = ch
    THEN trim_end_matches(SubSeq(str, 1, Len(str) - 1), ch) ELSE str

\* str::trim_matches
trim_matches(str, ch) == trim_end_matches(trim_start_matches(str, ch), ch)

\* str::trim
trim(str) == trim_matches(str, " ")

\* str::find: the position of the first occurrence, 0 if there is none
find(str, ch) ==
    IF \E n \in 1 .. Len(str) : str[n] = ch
    THEN CHOOSE n \in 1 .. Len(str) : str[n] = ch /\ \A j \in 1 .. (n - 1) : str[j] # ch
    ELSE 0

\* trimmed.split('=').nth(1), for a line that holds '='
split_nth_1(str) ==
    LET after == SubSeq(str, find(str, "=") + 1, Len(str))
    IN  IF find(after, "=") = 0 THEN after ELSE SubSeq(after, 1, find(after, "=") - 1)

\* the name taken from a line of the [package] section
name_of(trimmed) == trim_matches(trim_matches(trim(split_nth_1(trimmed)), "\""), "'")

NoName == [some |-> FALSE, name |-> <<>>]

RECURSIVE scan_lines(_, _, _)
\* extract_project_name, its loop from the k-th line on
scan_lines(lines, k, in_package) ==
    IF k > Len(lines) THEN NoName
    ELSE LET trimmed == trim(lines[k]) IN
         IF trimmed = PackageHeader THEN scan_lines(lines, k + 1, TRUE)
         ELSE IF starts_with(trimmed, <<"[">>) /\ trimmed # PackageHeader
              THEN scan_lines(lines, k + 1, FALSE)
         ELSE IF in_package /\ starts_with(trimmed, NameKey) /\ find(trimmed, "=") # 0
              THEN [some |-> TRUE, name |-> name_of(trimmed)]
         ELSE scan_lines(lines, k + 1, in_package)

NameErr == [ok |-> FALSE, name |-> <<>>]

\* RustProject::extract_project_name
extract_project_name(cargo_toml) ==
    IF ~cargo_toml.readable THEN NameErr
    ELSE IF scan_lines(cargo_toml.lines, 1, FALSE).some
         THEN [ok |-> TRUE, name |-> scan_lines(cargo_toml.lines, 1, FALSE).name]
    ELSE IF cargo_toml.file_name.some /\ cargo_toml.file_name.utf8
         THEN [ok |-> TRUE, name |-> cargo_toml.file_name.name]
    ELSE NameErr

\* the manifest of one call
NameInit ==
    /\ ControllerIdle
    /\ dry_run = TRUE
    /\ fq = FqIdle
    /\ sq = SqIdle
    /\ tq = TqIdle
    /\ app = AppIdle
    /\ wk = WkIdle
    /\ \E cargo_toml \in CargoTomls :
         nq = [phase |-> "args", manifest |-> cargo_toml, value |-> NameErr]

CallExtractProjectName ==
    /\ nq.phase = "args"
    /\ nq' = [nq EXCEPT !.phase = "extract_project_name",
                        !.value = extract_project_name(nq.manifest)]
    /\ UNCHANGED <<ctl, fq, sq, tq, app, wk>>

NameNext == CallExtractProjectName

NameSpec == NameInit /\ [][NameNext]_vars

\* ================================================================== claims
\* projects whose selection entry is true and that have target info
SelectedTargets ==
    {i \in Indices : selected_projects[i + 1] /\ projects[i + 1].target_info.some}

CleanedDirs == {i \in Indices : fs[i] = "cleaned"}

\* the Cleaner has processed the whole list and is about to return its result
CleanerReturning == pc = "clean_selected_projects" /\ cf.i >= Len(projects)

\* the indices of the log entries, and of those with a given set of outcomes
LogIndices(outcomes) ==
    {fs_log[n].index : n \in {m \in 1 .. Len(fs_log) : fs_log[m].outcome \in outcomes}}

\* C1: the Cleaner is invoked, and a directory removed by it, only inside the
\* handler of a y/Y key that was read while the mode was Confirm; a key read in
\* Browse, Cleaning or Complete never starts a cleanup.
C1_CleanerOnlyOnAffirm ==
    [][ /\ (cleaner_calls' # cleaner_calls \/ CleanedDirs' # CleanedDirs)
            => (pc \notin {"read", "exited"} /\ key.code \in {"y", "Y"} /\ key' = key)
        /\ (pc = "read" /\ pc' \notin {"read", "exited"})
            => (mode = "Confirm" /\ key'.code \in {"y", "Y"})
        /\ (pc \notin {"read", "exited"}) => key' = key
      ]_vars

C1_Witness == cleaner_calls > 0 /\ key.code = "y" /\ CleanedDirs # {}

\* C2: whenever the mode is Confirm, at least one selection entry is true.
C2_ConfirmHasSelection ==
    mode = "Confirm" => \E n \in 1 .. Len(selected_projects) : selected_projects[n]

C2_Witness == mode = "Confirm" /\ Len(projects) = MaxProjects

\* C3: with the dry-run flag set no step of the session removes a directory, and
\* every CleanupResult returned has total_freed equal to the sum of size_bytes over
\* the selected projects with target info, and no errors.
C3_DryRunTouchesNothing ==
    [][ dry_run =>
          /\ \A i \in Indices : fs'[i] # fs[i] => fs'[i] = "gone"
          /\ result' # result =>
                /\ result'.total_freed = SumOver(size_of, SelectedTargets)
                /\ result'.errors = <<>>
      ]_vars

C3_Witness ==
    /\ dry_run /\ pc = "exited" /\ result.some /\ result.total_freed = 2058
    /\ \A i \in Indices : fs[i] \in {"dir", "denied"}

\* C4: in a non-dry-run cleanup every directory the Cleaner removed belongs to a
\* project whose selection entry is true; the directory of an unselected project is
\* still there unless another process removed it.
C4_OnlySelectedRemoved ==
    \A i \in Indices :
        /\ fs[i] = "cleaned" => (selected_projects[i + 1] /\ ~dry_run)
        /\ (~selected_projects[i + 1] /\ projects[i + 1].target_info.some)
              => fs[i] \in {"dir", "denied", "gone"}

C4_Witness ==
    /\ ~dry_run /\ pc = "exited"
    /\ \E i, j \in Indices : fs[i] = "cleaned" /\ ~selected_projects[j + 1] /\ fs[j] = "dir"

\* C5: when a non-dry-run Cleaner call returns, every selected project with target
\* info was processed exactly once and in project order, errors holds one message
\* per failed removal in that order, and total_freed is the sum of the sizes of the
\* directories that were removed or found missing.
C5_BestEffort ==
    (CleanerReturning /\ ~dry_run) =>
        /\ Len(fs_log) = Cardinality(SelectedTargets)
        /\ LogIndices({"missing", "removed", "failed"}) = SelectedTargets
        /\ \A m, n \in 1 .. Len(fs_log) : m < n => fs_log[m].index < fs_log[n].index
        /\ Len(cf.errors) = Cardinality(LogIndices({"failed"}))
        /\ {cf.errors[n].path : n \in 1 .. Len(cf.errors)} = LogIndices({"failed"})
        /\ \A m, n \in 1 .. Len(cf.errors) : m < n => cf.errors[m].path < cf.errors[n].path
        /\ cf.total_freed = SumOver(size_of, LogIndices({"missing", "removed"}))

C5_Witness ==
    /\ CleanerReturning /\ ~dry_run
    /\ \E m, n \in 1 .. Len(fs_log) :
          m < n /\ fs_log[m].outcome = "failed" /\ fs_log[n].outcome = "removed"

\* C6: in a non-dry-run cleanup, when the existence check of delete_target_directory
\* finds the path missing, the project's size_bytes is added to total_freed and no
\* error is recorded.
C6_MissingIsSuccess ==
    [][ (pc = "delete_target_directory" /\ ~Exists(fs[cf.i]) /\ pc' # pc) =>
          /\ cf'.total_freed = cf.total_freed + projects[cf.i + 1].target_info.size_bytes
          /\ cf'.errors = cf.errors
          /\ cf'.i = cf.i + 1
      ]_vars

C6_Witness ==
    /\ CleanerReturning /\ ~dry_run /\ cf.errors = <<>> /\ cf.total_freed > 0
    /\ \A n \in 1 .. Len(fs_log) : fs_log[n].outcome = "missing"

\* C7: a directory that another process removed during the cleanup never yields
\* an error: no recorded error is the "not found" of a vanished path.
C7_ConcurrentRemovalNoError ==
    \A n \in 1 .. Len(cf.errors) : cf.errors[n].error # "NotFound"

\* C8: once the mode is Complete after a non-dry-run cleanup whose result holds
\* errors, the status text carries the error count.
C8_ErrorsReported ==
    (mode = "Complete" /\ ~dry_run /\ result.some /\ result.errors # <<>>) =>
        (status_message.kind = "CleanupCompleteErrors"
            /\ status_message.n = Len(result.errors))

\* C9: after the affirm input the mode goes from Cleaning to Complete and nowhere
\* else, whatever the errors of the cleanup, and it does get there.
C9_CleaningEndsInComplete ==
    /\ [][mode = "Cleaning" => mode' \in {"Cleaning", "Complete"}]_vars
    /\ (mode = "Cleaning") ~> (mode = "Complete")

C9_Witness == mode = "Complete" /\ result.some /\ result.errors # <<>>

\* C10: after a cleanup has brought the mode to Complete the session stays open:
\* it has ended only if the last key handled was an exit key (Enter or q).
C10_SessionStaysOpen ==
    (mode = "Complete" /\ result.some /\ cleanup_progress = One /\ pc = "exited")
        => key.code \in {"Enter", "q"}

CtrlC == [code |-> "c", modifiers |-> "CONTROL"]

DeclineKeys == {k \in KeyEvents : k.code \in {"n", "N", "Esc"}}

\* C13: in Confirm every decline key (n, N, Esc) is accepted and its step returns
\* to Browse, changing nothing but the status text; from the request for
\* confirmation to the decline the selection vector, the focus index and the
\* cumulative bytes stay as they were, and the Cleaner is not called.
C13_DeclineKeepsSelection ==
    /\ []((pc = "read" /\ mode = "Confirm") =>
            \A k \in DeclineKeys : ENABLED (handle_confirm_mode(k) /\ mode' = "Browse"))
    /\ [][ /\ (pc = "read" /\ mode = "Confirm" /\ \E k \in DeclineKeys : handle_confirm_mode(k))
               => (mode' = "Browse" /\ pc' = "read")
           /\ (pc = "read" /\ pc' = "read" /\ (mode = "Confirm" \/ mode' = "Confirm"))
               => UNCHANGED <<selected_projects, selected, list_state, total_freed_space,
                              cleanup_progress, dry_run, cleaner_calls, result, projects>>
         ]_vars

C13_Witness ==
    /\ mode = "Browse" /\ status_message.kind = "Cancelled" /\ selected = 1
    /\ selected_projects = <<TRUE, TRUE>> /\ total_freed_space = 2058

QKey == [code |-> "q", modifiers |-> "NONE"]

\* C14: in Browse the key q is accepted and ends the session.
C14_QuitsInBrowse ==
    (pc = "read" /\ mode = "Browse") => ENABLED (handle_browse_mode(QKey) /\ pc' = "exited")

\* C12: a key read while the mode is Cleaning is accepted, whatever the key, and
\* leaves the whole controller state as it was: mode, focus index, selection
\* vector, cumulative bytes, progress, status text and dry-run flag.
C12_CleaningIgnoresInput ==
    /\ []((pc = "read" /\ mode = "Cleaning") =>
            \A k \in KeyEvents : ENABLED handle_cleaning_mode(k))
    /\ [][ (pc = "read" /\ mode = "Cleaning") =>
              UNCHANGED <<mode, selected, list_state, selected_projects, total_freed_space,
                          cleanup_progress, status_message, dry_run, pc, cleaner_calls>>
         ]_vars

C12_Witness ==
    /\ pc = "read" /\ mode = "Cleaning" /\ fs_log = <<>>
    /\ \E n \in 1 .. Len(selected_projects) : selected_projects[n]
    /\ \E i \in Indices : fs[i] = "gone"

\* C15: with the ignore list {I}, is_ignored_path answers true for a path equal to
\* I and for a path that starts with I immediately followed by a separator.
C15_IgnoredSelfAndDescendants ==
    (fq.phase = "is_ignored_path" /\ Len(fq.ignore_paths) = 1) =>
        LET I == fq.ignore_paths[1]
            P == fq.path
        IN  ( \/ P = I
              \/ /\ Len(P) > Len(I)
                 /\ \A n \in 1 .. Len(I) : P[n] = I[n]
                 /\ P[Len(I) + 1] = "/" )
            => fq.value

C15_Witness ==
    /\ fq.phase = "is_ignored_path" /\ fq.value
    /\ fq.ignore_paths = << <<"a">> >>
    /\ fq.path = <<"a", "/", "a">>

\* C16: is_excluded answers true exactly when some pattern occurs in the path's
\* string at some offset, whether or not the occurrence lines up with a segment.
C16_ExcludedIffSubstring ==
    fq.phase = "is_excluded" =>
        (fq.value <=>
            \E n \in 1 .. Len(fq.exclude_patterns) :
                LET pat == fq.exclude_patterns[n]
                    str == to_string_lossy(fq.path)
                IN  \E off \in 0 .. Len(str) :
                        /\ off + Len(pat) <= Len(str)
                        /\ \A j \in 1 .. Len(pat) : str[off + j] = pat[j])

C16_Witness ==
    /\ fq.phase = "is_excluded" /\ fq.value
    /\ fq.path = <<"/", "a", "a">>
    /\ fq.exclude_patterns = << <<"FFFD">>, <<"a">> >>

RECURSIVE RegularFiles(_, _)
\* the number of regular files under the directory, from the k-th run on
RegularFiles(entries, k) ==
    IF k > Len(entries) THEN 0
    ELSE (IF entries[k].kind = "file" THEN entries[k].n ELSE 0) + RegularFiles(entries, k + 1)

RECURSIVE RegularBytes(_, _)
\* the sum of the sizes of the regular files under the directory, from the k-th run on
RegularBytes(entries, k) ==
    IF k > Len(entries) THEN 0
    ELSE (IF entries[k].kind = "file" THEN entries[k].n * entries[k].len ELSE 0)
         + RegularBytes(entries, k + 1)

\* C20: for a build-output directory with at most 10,000 regular files,
\* calculate_directory_size returns the sum of the sizes of all regular files under it.
C20_ExactUpTo10000 ==
    (sq.phase = "calculate_directory_size" /\ RegularFiles(sq.entries, 1) <= 10000) =>
        sq.value = RegularBytes(sq.entries, 1)

RECURSIVE ManifestIds(_, _)
\* the manifests on disk, as <<search path, position>>, in the order of the scan,
\* from the r-th search path on
ManifestIds(search_paths, r) ==
    IF r > Len(search_paths) THEN <<>>
    ELSE [k \in 1 .. Len(search_paths[r].manifests) |-> <<r, k>>]
         \o ManifestIds(search_paths, r + 1)

ManifestAt(id) == app.search_paths[id[1]].manifests[id[2]]

\* the manifest has a name that resolves and a build-output directory next to it
HasBoth(id) == ManifestAt(id).name_ok /\ ManifestAt(id).target.is_dir

\* the scan has gone past the manifest
Visited(id) == id[1] < app.path \/ (id[1] = app.path /\ id[2] < app.entry)

ScanReturned == app.phase \in {"join", "tui"} /\ app.path > 0

\* C17: a manifest without a resolvable name or without a build-output directory is
\* skipped and the scan goes on to the last manifest; the list holds exactly the
\* visited manifests that have both, each with target info.
C17_SkipsSingleManifests ==
    (app.phase = "find_projects" \/ ScanReturned) =>
        /\ [n \in 1 .. Len(app.projects) |-> app.projects[n].path]
              = SelectSeq(SelectSeq(ManifestIds(app.search_paths, 1), Visited), HasBoth)
        /\ \A n \in 1 .. Len(app.projects) : app.projects[n].target_info.some
        /\ ScanReturned =>
              /\ \A n \in 1 .. Len(ManifestIds(app.search_paths, 1)) :
                     Visited(ManifestIds(app.search_paths, 1)[n])
              /\ app.enumerated = Len(ManifestIds(app.search_paths, 1))

C17_Witness ==
    /\ app.phase = "join"
    /\ Len(app.search_paths) = 1
    /\ app.search_paths[1].manifests =
           << [name_ok |-> FALSE, target |-> Dir10], [name_ok |-> TRUE, target |-> NoDir],
              [name_ok |-> TRUE, target |-> Dir2048] >>
    /\ Len(app.projects) = 1
    /\ app.projects[1].path = <<1, 3>>

\* three manifests below one search path: 10 bytes, 2048 bytes last used 10 days
\* ago, no build-output directory
ThreeManifests ==
    app.search_paths =
        << [exists |-> TRUE,
            manifests |-> << [name_ok |-> TRUE, target |-> Dir10],
                             [name_ok |-> TRUE, target |-> Dir2048],
                             [name_ok |-> TRUE, target |-> NoDir] >>] >>

\* both selected and confirmed in dry-run: 2058 bytes, no errors, the disk untouched
DryRunOfBoth ==
    /\ (dry_run /\ selected_projects = <<TRUE, TRUE>> /\ result.some) =>
           (result.total_freed = 2058 /\ result.errors = <<>>)
    /\ dry_run => (fs_log = <<>> /\ \A i \in Indices : fs[i] = "dir")

\* C18 as stated: the controller's list has three entries, the third without
\* target info; the second is stale; dry-run of both frees 2058 bytes without errors
\* or filesystem change.
C18_EndToEnd ==
    (ThreeManifests /\ app.phase = "tui") =>
        /\ Len(projects) = 3
        /\ projects[1].target_info.some /\ projects[2].target_info.some
        /\ ~projects[3].target_info.some
        /\ projects[2].target_info.is_stale
        /\ DryRunOfBoth

\* C18, amended: the controller's list has exactly the two projects with target
\* info, of 10 and 2048 bytes, and the third manifest yields no entry; the second is
\* stale; dry-run of both frees 2058 bytes without errors or filesystem change.
C18_EndToEndTwoListed ==
    (ThreeManifests /\ app.phase = "tui") =>
        /\ Len(projects) = 2
        /\ projects[1].target_info.some /\ projects[1].target_info.size_bytes = 10
        /\ projects[2].target_info.some /\ projects[2].target_info.size_bytes = 2048
        /\ projects[1].path = <<1, 1>> /\ projects[2].path = <<1, 2>>
        /\ projects[2].target_info.is_stale
        /\ DryRunOfBoth

C18_Witness ==
    /\ ThreeManifests
    /\ pc = "exited" /\ dry_run /\ cleaner_calls > 0
    /\ selected_projects = <<TRUE, TRUE>>
    /\ result.some /\ result.total_freed = 2058 /\ result.errors = <<>>
    /\ projects[2].target_info.is_stale

SomeRootMissing == \E r \in 1 .. Len(app.search_paths) : ~app.search_paths[r].exists

\* C19: with a search root that does not exist, App::new fails, and nothing is
\* enumerated, the progress indicator is never spawned and the controller is never
\* constructed.
C19_MissingRootFailsEarly ==
    SomeRootMissing =>
        /\ app.phase \in {"main", "failed"}
        /\ app.phase = "main" => ENABLED (AppNew /\ app'.phase = "failed")
        /\ app.enumerated = 0 /\ app.projects = <<>>
        /\ app.loading_indicator = "none"
        /\ pc = "idle" /\ projects = <<>>

C19_Witness ==
    /\ app.phase = "failed"
    /\ Len(app.search_paths) = 2
    /\ app.search_paths[1].exists /\ app.search_paths[1].manifests # <<>>
    /\ ~app.search_paths[2].exists

RECURSIVE FirstBytes(_, _, _)
\* the bytes of the first `left` regular files the walk meets from the k-th run on
FirstBytes(entries, k, left) ==
    IF k > Len(entries) \/ left = 0 THEN 0
    ELSE IF entries[k].kind = "file"
         THEN Min(entries[k].n, left) * entries[k].len
              + FirstBytes(entries, k + 1, left - Min(entries[k].n, left))
         ELSE FirstBytes(entries, k + 1, left)

RECURSIVE TopLevelEntries(_, _)
\* the number of direct children of the directory, from the k-th run on
TopLevelEntries(entries, k) ==
    IF k > Len(entries) THEN 0
    ELSE (IF entries[k].top THEN entries[k].n ELSE 0) + TopLevelEntries(entries, k + 1)

\* everything under the directory can be read
AllReadable(entries) == \A k \in 1 .. Len(entries) : entries[k].err = "none"

\* C21: for a build-output directory with more than 10,000 files, all of them
\* readable, calculate_directory_size returns the mean size of the files summed up to
\* the 10,001st, times the number of top-level entries, that number being at most
\* 100,000.
C21_EstimateCapped ==
    (/\ sq.phase = "calculate_directory_size"
     /\ RegularFiles(sq.entries, 1) > 10000
     /\ AllReadable(sq.entries)) =>
        sq.value = (FirstBytes(sq.entries, 1, 10001) \div 10001)
                       * Min(TopLevelEntries(sq.entries, 1), 100000)

RECURSIVE SampledTimes(_, _, _)
\* the modification times that can be read among the files get_last_accessed_time
\* samples (the first 101 files the walk yields), from the k-th run on
SampledTimes(entries, k, files_checked) ==
    IF k > Len(entries) \/ files_checked > 100 THEN {}
    ELSE LET e == entries[k] IN
         IF e.kind # "file" \/ e.err = "entry" THEN SampledTimes(entries, k + 1, files_checked)
         ELSE (IF e.err = "none" THEN {e.modified} ELSE {})
              \cup SampledTimes(entries, k + 1, files_checked + e.n)

Oldest(times) == CHOOSE t \in times : \A u \in times : t <= u

\* C22: when a sampled file's modification time can be read, get_last_accessed_time
\* returns the oldest of the directory's own time and the sampled files' times; it
\* returns the 30 days default only when none can be read.
C22_OldestSeen ==
    tq.phase = "get_last_accessed_time" =>
        LET times == SampledTimes(tq.dir.entries, 1, 0) IN
        IF times # {} THEN tq.value = Oldest(times \cup {tq.dir.modified})
        ELSE tq.value = now - 30

\* C23: is_stale answers Ok, and true exactly when max(0, now - last_used) is at
\* least the threshold.
C23_StaleIffSaturatingDifference ==
    tq.phase = "is_stale" =>
        /\ tq.value.ok
        /\ tq.value.stale <=>
              (IF now - tq.last_accessed > 0 THEN now - tq.last_accessed ELSE 0) >= tq.threshold

C23_Witness ==
    /\ tq.phase = "is_stale" /\ tq.last_accessed = now + 1 /\ tq.threshold = 0
    /\ tq.value.stale

\* C24 as stated: a last_used time after now is not stale, whatever the threshold.
C24_FutureNeverStale ==
    (tq.phase = "is_stale" /\ tq.last_accessed > now) => ~tq.value.stale

\* C24, amended: a last_used time after now is not stale for every threshold of at
\* least one day, and is stale for the threshold 0.
C24_FutureNotStaleUnlessZero ==
    (tq.phase = "is_stale" /\ tq.last_accessed > now) =>
        (tq.value.stale <=> tq.threshold = 0)

C24_Witness ==
    /\ tq.phase = "is_stale" /\ tq.last_accessed = now + 1 /\ tq.threshold = 1
    /\ ~tq.value.stale

EnterKey == [code |-> "Enter", modifiers |-> "NONE"]

NoneSelected == \A n \in 1 .. Len(selected_projects) : ~selected_projects[n]

\* C25: Enter in Browse with no project selected is accepted, leaves the mode at
\* Browse and changes nothing but the status text; the Cleaner is not called.
C25_EmptyConfirmIsNoOp ==
    /\ []((pc = "read" /\ mode = "Browse" /\ NoneSelected) =>
            ENABLED (handle_browse_mode(EnterKey) /\ mode' = "Browse" /\ pc' = "read"))
    /\ [][ (pc = "read" /\ mode = "Browse" /\ NoneSelected /\ handle_browse_mode(EnterKey)) =>
              /\ mode' = "Browse" /\ pc' = "read"
              /\ status_message'.kind = "NoneSelected"
              /\ UNCHANGED <<selected, list_state, selected_projects, total_freed_space,
                             cleanup_progress, cleaner_calls, result, fs, dry_run, projects>>
         ]_vars

C25_Witness ==
    /\ mode = "Browse" /\ pc = "read" /\ status_message.kind = "NoneSelected"
    /\ Len(projects) = 2 /\ selected = 1 /\ NoneSelected /\ cleaner_calls = 0

UpKey == [code |-> "Up", modifiers |-> "NONE"]

DownKey == [code |-> "Down", modifiers |-> "NONE"]

\* C26: the focus index is below the project count, or 0 for an empty list, so the
\* toggle's index lies inside the selection vector; Up at index 0 and Down at the
\* last index leave the focus where it is.
C26_FocusInBounds ==
    /\ [](IF Len(projects) = 0 THEN selected = 0
          ELSE selected >= 0 /\ selected < Len(projects) /\ selected < Len(selected_projects))
    /\ [][ (pc = "read" /\ mode = "Browse") =>
              /\ (selected = 0 /\ handle_browse_mode(UpKey)) => selected' = 0
              /\ (selected + 1 >= Len(projects) /\ handle_browse_mode(DownKey))
                     => selected' = selected
         ]_vars

C26_Witness ==
    /\ mode = "Browse" /\ Len(projects) = 2 /\ selected = 1
    /\ selected_projects = <<FALSE, TRUE>>

\* C27: the selection vector is as long as the project list, and no step changes
\* the project list.
C27_SelectionAligned ==
    /\ [](Len(selected_projects) = Len(projects))
    /\ [][projects' = projects]_vars

C27_Witness ==
    /\ mode = "Browse" /\ status_message.kind = "BackToSelection"
    /\ Len(projects) = 2 /\ selected_projects = <<TRUE, FALSE>>

\* C28: in Browse and in Confirm the cumulative bytes are the sum of size_bytes over
\* the projects whose selection entry is true and that have target info.
C28_BytesFollowSelection ==
    mode \in {"Browse", "Confirm"} =>
        total_freed_space = SumOver(size_of, SelectedTargets)

C28_Witness ==
    /\ mode = "Confirm" /\ Len(projects) = 2 /\ selected_projects = <<TRUE, TRUE>>
    /\ ~projects[1].target_info.some /\ total_freed_space = 2048

\* C29: the controller's list exists from its construction on; there every project
\* with target info carries the verdict of the threshold on its last-used time, with
\* the size, path and last-used time the scan found, and no later step changes the
\* list.
C29_ClassifiedOnce ==
    /\ [](app.phase # "tui" => projects = <<>>)
    /\ [](app.phase = "tui" =>
            /\ Len(projects) = Len(app.projects)
            /\ \A n \in 1 .. Len(projects) :
                 LET was == app.projects[n].target_info
                     info == projects[n].target_info
                 IN  /\ projects[n].path = app.projects[n].path
                     /\ info.some = was.some
                     /\ info.size_bytes = was.size_bytes
                     /\ info.last_accessed = was.last_accessed
                     /\ ~was.is_stale
                     /\ info.is_stale <=>
                          (IF now > info.last_accessed THEN now - info.last_accessed ELSE 0)
                              >= stale_threshold)
    /\ [][app.phase = "tui" => projects' = projects]_vars

C29_Witness ==
    /\ app.phase = "tui" /\ pc = "exited" /\ cleaner_calls > 0 /\ ~dry_run
    /\ Len(projects) = 2
    /\ projects[1].target_info.is_stale /\ ~projects[2].target_info.is_stale

\* the entry lies strictly below the directory
Below(path, dir) == Len(path) > Len(dir) /\ SubSeq(path, 1, Len(dir) + 1) = dir \o <<"/">>

\* the directories of the disk that the exclude patterns or the ignore entries match
MatchedDirs ==
    { dir \in wk.entries :
        /\ is_dir(dir)
        /\ \/ is_excluded(dir, wk.exclude_patterns)
           \/ is_ignored_path(dir, wk.ignore_paths) }

IgnoredRoots ==
    { wk.search_paths[r] : r \in { n \in 1 .. Len(wk.search_paths) :
                                     is_ignored_path(wk.search_paths[n], wk.ignore_paths) } }

\* C30: the walk reads no entry strictly below a directory that an exclude pattern
\* or an ignore entry matches, no manifest below such a directory becomes a project,
\* and an ignored search path is neither read nor walked.
C30_PrunedBeforeDescending ==
    /\ \A dir \in MatchedDirs :
         /\ \A path \in wk.read : ~Below(path, dir)
         /\ \A n \in 1 .. Len(wk.projects) : ~Below(wk.projects[n], dir)
    /\ \A root \in IgnoredRoots :
         /\ root \notin wk.read
         /\ \A path \in wk.read : ~Below(path, root)
         /\ \A n \in 1 .. Len(wk.stack_list) : root \notin wk.stack_list[n]

C30_Witness ==
    /\ wk.phase = "returned"
    /\ IgnoredRoots # {}
    /\ Len(wk.projects) > 0
    /\ \E dir \in MatchedDirs \cap wk.read :
         \E path \in wk.entries : ~is_dir(path) /\ Below(path, dir) /\ Len(path) > Len(dir) + 2

\* C31: with the ignore list {I}, I not empty, is_ignored_path answers false for a
\* path that is neither I nor below I, such as one whose name only begins like I's.
C31_SimilarNameNotIgnored ==
    (fq.phase = "is_ignored_path" /\ Len(fq.ignore_paths) = 1) =>
        LET I == fq.ignore_paths[1]
            P == fq.path
            below == /\ Len(P) > Len(I)
                     /\ \A n \in 1 .. Len(I) : P[n] = I[n]
                     /\ (P[Len(I) + 1] = "/" \/ I[Len(I)] = "/")
        IN  (I # <<>> /\ P # I /\ ~below) => ~fq.value

\* the first line that is the [package] header, 0 if there is none
SectionStart(lines) ==
    IF \E k \in 1 .. Len(lines) : trim(lines[k]) = PackageHeader
    THEN CHOOSE k \in 1 .. Len(lines) :
            /\ trim(lines[k]) = PackageHeader
            /\ \A j \in 1 .. (k - 1) : trim(lines[j]) # PackageHeader
    ELSE 0

\* the lines of the [package] section: those after its header and before the next
\* header of another section
SectionLines(lines) ==
    IF SectionStart(lines) = 0 THEN {}
    ELSE { k \in (SectionStart(lines) + 1) .. Len(lines) :
             \A j \in (SectionStart(lines) + 1) .. k :
                 trim(lines[j]) = PackageHeader \/ trim(lines[j])[1] # "[" }

\* the lines of the [package] section that begin with the key and hold a value
NameLines(lines) ==
    { k \in SectionLines(lines) :
        /\ Len(trim(lines[k])) >= 4
        /\ SubSeq(trim(lines[k]), 1, 4) = NameKey
        /\ \E n \in 1 .. Len(lines[k]) : lines[k][n] = "=" }

\* C32: for a manifest that can be read, extract_project_name returns the value of
\* the first line with the key inside the [package] section, no line after the next
\* header of another section being used; without such a line the base name of the
\* manifest's directory; and an error only when that is not available either.
C32_NameFromPackageSection ==
    (nq.phase = "extract_project_name" /\ nq.manifest.readable) =>
        LET lines == nq.manifest.lines
            named == NameLines(lines)
            first == CHOOSE k \in named : \A j \in named : k <= j
        IN  IF named # {}
            THEN nq.value = [ok |-> TRUE, name |-> name_of(trim(lines[first]))]
            ELSE IF nq.manifest.file_name.some /\ nq.manifest.file_name.utf8
                 THEN nq.value = [ok |-> TRUE, name |-> nq.manifest.file_name.name]
                 ELSE ~nq.value.ok

\* the manifests on disk that have both, in the order of the scan
ListedIds == SelectSeq(ManifestIds(app.search_paths, 1), HasBoth)

\* C33: the controller exists, and a key is read, only after the worker has been sent
\* the stop signal and has finished; the list the scan returns is the one the disk
\* determines, whatever frames the worker drew in between.
C33_WorkerJoinedFirst ==
    /\ (app.phase = "tui" \/ pc # "idle" \/ key # NoKey \/ projects # <<>>) =>
           (app.tx = "sent" /\ app.loading_indicator = "finished")
    /\ app.loading_indicator = "finished" => app.tx = "sent"
    /\ ScanReturned =>
           app.projects = [n \in 1 .. Len(ListedIds) |->
                              [path |-> ListedIds[n],
                               target_info |-> find_target_info(ManifestAt(ListedIds[n]))]]

C33_Witness ==
    /\ app.phase = "tui" /\ app.loading_indicator = "finished"
    /\ mode = "Confirm"
    /\ Len(projects) = 2 /\ Len(ListedIds) = 2

\* C34: a session, which has at most one affirm input, calls clean_selected_projects
\* at most once, however many projects are selected.
C34_OneCleanerCallPerAffirm == cleaner_calls <= 1

\* C36: for a directory with more than 10,000 files, all readable, and at least one
\* direct child, the result of calculate_directory_size is not below the bytes of the
\* files it had summed when it took the estimate.
C36_EstimateNotBelowSummed ==
    (/\ sq.phase = "calculate_directory_size"
     /\ RegularFiles(sq.entries, 1) > 10000
     /\ AllReadable(sq.entries)
     /\ TopLevelEntries(sq.entries, 1) >= 1) =>
        sq.value >= FirstBytes(sq.entries, 1, 10001)

====
